---------------------------- MODULE Spec2Model ----------------------------
(***************************************************************************)
(* A model of translate_srt.py: the subtitle translation run (argument     *)
(* checks, document load, output path, client initialisation, settings,    *)
(* the block-by-block translation loop, the save), and its pure text       *)
(* functions (line wrapping, block serialization, response parsing).       *)
(*                                                                         *)
(* Python strings are modelled as sequences of one-character strings, so   *)
(* every text operation is computed character by character as the code     *)
(* computes it.                                                            *)
(***************************************************************************)
EXTENDS Integers, Sequences, FiniteSets, TLC

VARIABLES
    \* ---- the run of the script (specification Spec) ----
    pc,                \* position of the script
    argv,              \* sys.argv
    input_file_path,   \* line 84
    output_file_path,  \* line 97
    env_api_key,       \* os.environ["OPENAI_API_KEY"], or NoKey
    api_token_file,    \* contents of api_token.txt, or NoFile
    prefer_env,        \* config DEFAULT/PreferEnvForAPIKey
    client_api_key,    \* the key the OpenAI client was built with
    original,          \* the document as pysrt.open returned it
    subs,              \* the in-memory document, mutated in place
    block_size,        \* Settings/BlockSize
    max_line_length,   \* Settings/MaxLineLength
    total_blocks,      \* line 175
    start,             \* loop variable of range(0, len(subs), block_size)
    block_num,         \* i + 1 of the enumerate
    translated_block,  \* what translate_block returned for the last block
    requests,          \* the requests sent to the completion service
    phases,            \* the phases the run has passed through
    dest_existed,      \* os.path.exists(output_file_path) at line 100
    dest_writes,       \* how many times the destination was opened for writing
    exit_code,         \* process exit status, once the script has ended
    \* ---- split_long_line applied to one input (specification SpecWrap) ----
    wrap_text, wrap_width, wrap_lines, wrap_done,
    \* ---- serialization and parsing of one block (specification SpecRoundTrip) ----
    rt_block, rt_combined_text, rt_translated_text, rt_parsed, rt_pc

runVars  == <<pc, argv, input_file_path, output_file_path, env_api_key,
              api_token_file, prefer_env, client_api_key, original, subs,
              block_size, max_line_length, total_blocks, start, block_num,
              translated_block, requests, phases, dest_existed, dest_writes,
              exit_code>>
wrapVars == <<wrap_text, wrap_width, wrap_lines, wrap_done>>
rtVars   == <<rt_block, rt_combined_text, rt_translated_text, rt_parsed, rt_pc>>
vars     == <<runVars, wrapVars, rtVars>>

---------------------------------------------------------------------------
(* Bounds of the model.                                                    *)

MaxTextLen == 5     \* longest text given to split_long_line in SpecWrap
MaxWidth == 3       \* largest max_line_length
MaxEntries == 3     \* longest document
MaxBlockSize == 2   \* largest block_size
MaxBlockLen == 2    \* longest block serialized in SpecRoundTrip

---------------------------------------------------------------------------
(* Python string primitives.                                               *)

NL == "\n"

\* The characters str.split() and str.strip() treat as whitespace.
IsSpace(c) == c \in {" ", "\t", NL}

\* sep.join(parts)
RECURSIVE Join(_, _)
Join(sep, parts) ==
    IF parts = <<>> THEN <<>>
    ELSE IF Len(parts) = 1 THEN parts[1]
    ELSE parts[1] \o sep \o Join(sep, Tail(parts))

\* text.split(): the maximal runs of non-whitespace characters, in order.
RECURSIVE SplitFrom(_, _, _)
SplitFrom(s, i, cur) ==
    IF i > Len(s)
    THEN (IF cur = <<>> THEN <<>> ELSE <<cur>>)
    ELSE IF IsSpace(s[i])
         THEN (IF cur = <<>> THEN SplitFrom(s, i + 1, <<>>)
                             ELSE <<cur>> \o SplitFrom(s, i + 1, <<>>))
         ELSE SplitFrom(s, i + 1, Append(cur, s[i]))

SplitWords(s) == SplitFrom(s, 1, <<>>)

\* text.split(sep) for a one-character separator: empty pieces are kept.
RECURSIVE SplitOnFrom(_, _, _, _)
SplitOnFrom(s, sep, i, cur) ==
    IF i > Len(s) THEN <<cur>>
    ELSE IF s[i] = sep
         THEN <<cur>> \o SplitOnFrom(s, sep, i + 1, <<>>)
         ELSE SplitOnFrom(s, sep, i + 1, Append(cur, s[i]))

SplitOn(s, sep) == SplitOnFrom(s, sep, 1, <<>>)

\* text.strip()
RECURSIVE LStrip(_)
LStrip(s) == IF s # <<>> /\ IsSpace(s[1]) THEN LStrip(Tail(s)) ELSE s

RECURSIVE RStrip(_)
RStrip(s) ==
    IF s # <<>> /\ IsSpace(s[Len(s)]) THEN RStrip(SubSeq(s, 1, Len(s) - 1)) ELSE s

Strip(s) == RStrip(LStrip(s))

\* text.replace(old, new) for a one-character old and new.
ReplaceChar(s, old, new) == [k \in 1..Len(s) |-> IF s[k] = old THEN new ELSE s[k]]

\* text.find(c): the 0-based position of the first c, -1 when there is none.
Find(s, c) ==
    IF \E k \in 1..Len(s) : s[k] = c
    THEN (CHOOSE k \in 1..Len(s) : s[k] = c /\ \A m \in 1..(k - 1) : s[m] # c) - 1
    ELSE -1

\* text[n:] for n >= 0
SliceFrom(s, n) == SubSeq(s, n + 1, Len(s))

\* text.lower() over the characters the model's paths use.
LowerChar(c) ==
    CASE c = "S" -> "s" [] c = "R" -> "r" [] c = "T" -> "t" [] c = "M" -> "m"
      [] OTHER -> c

Lower(s) == [k \in 1..Len(s) |-> LowerChar(s[k])]

\* text.endswith(suffix)
EndsWith(s, suffix) ==
    /\ Len(s) >= Len(suffix)
    /\ SubSeq(s, Len(s) - Len(suffix) + 1, Len(s)) = suffix

\* text.startswith(prefix, i), i 1-based here
MatchesAt(s, i, pat) ==
    /\ i + Len(pat) - 1 <= Len(s)
    /\ SubSeq(s, i, i + Len(pat) - 1) = pat

\* text.replace(old, new): every non-overlapping occurrence, left to right.
RECURSIVE ReplaceFrom(_, _, _, _)
ReplaceFrom(s, i, old, new) ==
    IF i > Len(s) THEN <<>>
    ELSE IF MatchesAt(s, i, old)
         THEN new \o ReplaceFrom(s, i + Len(old), old, new)
         ELSE <<s[i]>> \o ReplaceFrom(s, i + 1, old, new)

Replace(s, old, new) == ReplaceFrom(s, 1, old, new)

\* str(n) for n >= 0
Digit(d) == <<"0", "1", "2", "3", "4", "5", "6", "7", "8", "9">>[d + 1]

RECURSIVE IntToStr(_)
IntToStr(n) == IF n < 10 THEN <<Digit(n)>> ELSE IntToStr(n \div 10) \o <<Digit(n % 10)>>

\* The concatenation of a sequence of sequences.
RECURSIVE Flatten(_)
Flatten(seqs) == IF seqs = <<>> THEN <<>> ELSE seqs[1] \o Flatten(Tail(seqs))

\* All strings over an alphabet up to a length.
RECURSIVE StringsUpTo(_, _)
StringsUpTo(alphabet, n) ==
    IF n = 0 THEN {<<>>}
    ELSE LET shorter == StringsUpTo(alphabet, n - 1)
         IN  shorter \cup {Append(s, c) : s \in shorter, c \in alphabet}

---------------------------------------------------------------------------
(* split_long_line (lines 63-76).                                          *)

\* sum(len(w) + 1 for w in current_line)
RECURSIVE LineBudget(_)
LineBudget(current_line) ==
    IF current_line = <<>> THEN 0
    ELSE Len(current_line[1]) + 1 + LineBudget(Tail(current_line))

FitsOnLine_NoSeparator(current_line, word, max_len) ==
    Len(Join(<<>>, current_line)) + Len(word) <= max_len

\* the condition of line 69
FitsOnLine(current_line, word, max_len) ==
    LineBudget(current_line) + Len(word) <= max_len

\* the for loop of lines 68-73 and the flush of lines 74-75
RECURSIVE WrapLoop(_, _, _, _)
WrapLoop(words, lines, current_line, max_len) ==
    IF words = <<>>
    THEN (IF current_line # <<>>
          THEN Append(lines, Join(<<" ">>, current_line))
          ELSE lines)
    ELSE IF FitsOnLine(current_line, words[1], max_len)
         THEN WrapLoop(Tail(words), lines, Append(current_line, words[1]), max_len)
         ELSE WrapLoop(Tail(words), Append(lines, Join(<<" ">>, current_line)),
                       <<words[1]>>, max_len)

split_long_line(text, max_len) == WrapLoop(SplitWords(text), <<>>, <<>>, max_len)

---------------------------------------------------------------------------
(* translate_block: block serialization (line 138) and response parsing    *)
(* (lines 158 and 170).                                                    *)

\* f"[{sub.index}] {sub.text}".replace('\n', ' ')
SerializeEntry(sub) ==
    ReplaceChar(<<"[">> \o IntToStr(sub.index) \o <<"]", " ">> \o sub.text, NL, " ")

\* combined_text, line 138
SerializeBlock(block) ==
    Join(<<NL>>, [j \in 1..Len(block) |-> SerializeEntry(block[j])])

ParseLine_OffByOne(line) == SliceFrom(line, Find(line, "]") + 1)

\* line[line.find(']') + 2:]
ParseLine(line) == SliceFrom(line, Find(line, "]") + 2)

\* the lines of translated_text kept by "if line.strip()"
NonBlankLines(translated_text) ==
    SelectSeq(SplitOn(translated_text, NL), LAMBDA line : Strip(line) # <<>>)

\* indexed_translations, line 170
ParseTranslatedText(translated_text) ==
    LET kept == NonBlankLines(translated_text)
    IN  [j \in 1..Len(kept) |-> ParseLine(kept[j])]

\* message.content.strip() (line 158) followed by the parsing of line 170
ParseResponse(content) == ParseTranslatedText(Strip(content))

---------------------------------------------------------------------------
(* Values that stand for the absence of a string.  A string is a sequence  *)
(* of one-character strings, so none of these equals a string.             *)

NoKey == <<"<None>">>                 \* os.getenv / os.environ.get found nothing
NoFile == <<"<FileNotFoundError>">>   \* api_token.txt does not exist
ExitOne == <<"<sys.exit(1)>">>        \* get_api_key ended the process
Unset == <<"<unset>">>                \* a name not yet assigned

---------------------------------------------------------------------------
(* get_api_key (lines 28-47).  The script defines it and never calls it.   *)

get_api_key(prefer, env, token_file) ==
    IF prefer /\ env # NoKey THEN env
    ELSE IF token_file # NoFile THEN Strip(token_file)
    ELSE IF ~prefer /\ env # NoKey THEN env
    ELSE ExitOne

---------------------------------------------------------------------------
(* The argument checks and the output path (lines 79-97).                  *)

DotSrt == <<".", "s", "r", "t">>
TranslatedDotSrt ==
    <<"_", "t", "r", "a", "n", "s", "l", "a", "t", "e", "d", ".", "s", "r", "t">>

\* line 85: input_file_path.lower().endswith('.srt')
HasSrtExtension(path) == EndsWith(Lower(path), DotSrt)

\* line 97: input_file_path.replace('.srt', '_translated.srt')
OutputPath(path) == Replace(path, DotSrt, TranslatedDotSrt)

---------------------------------------------------------------------------
(* The main translation loop (lines 175-192).                              *)

PlaceholderText ==
    <<"T", "r", "a", "n", "s", "l", "a", "t", "i", "o", "n", " ",
      "E", "r", "r", "o", "r">>

\* line 175: (len(subs) + block_size - 1) // block_size, for block_size > 0
TotalBlocks(n_subs, size) == (n_subs + size - 1) \div size

Min(a, b) == IF a <= b THEN a ELSE b

BlockPositions_DropsLast(first, size, n_subs) ==
    [j \in 1..(Min(first + size - 2, n_subs) - first + 1) |-> first + j - 1]

\* line 180: subs[start:start + block_size], as the 1-based positions of its
\* entries; first = start + 1.  The slice stops at the end of the list.
BlockPositions(first, size, n_subs) ==
    [j \in 1..(Min(first + size - 1, n_subs) - first + 1) |-> first + j - 1]

ApplyEntry_KeepsTextOnShortfall(sub, j, translated, max_len) ==
    IF j <= Len(translated)
    THEN (IF max_len > 0
          THEN [sub EXCEPT !.text = Join(<<NL>>, split_long_line(translated[j], max_len))]
          ELSE [sub EXCEPT !.text = translated[j]])
    ELSE sub

\* lines 183-192 for the j-th entry of the block (j counted from 1, so the
\* code's "j < len(translated_block)" reads j <= Len)
ApplyEntry(sub, j, translated, max_len) ==
    IF j <= Len(translated)
    THEN (IF max_len > 0
          THEN [sub EXCEPT !.text = Join(<<NL>>, split_long_line(translated[j], max_len))]
          ELSE [sub EXCEPT !.text = translated[j]])
    ELSE [sub EXCEPT !.text = PlaceholderText]

\* lines 182-192: the document after the block at `positions` took `translated`
ApplyBlock(doc, positions, translated, max_len) ==
    [p \in 1..Len(doc) |->
        IF \E j \in 1..Len(positions) : positions[j] = p
        THEN LET j == CHOOSE j \in 1..Len(positions) : positions[j] = p
             IN  ApplyEntry(doc[p], j, translated, max_len)
        ELSE doc[p]]

---------------------------------------------------------------------------
(* Values of the variables a specification does not use.                   *)

\* The exit status: none while the script runs, <<n>> once it ended with n.
Running == <<>>
Exited(status) == <<status>>

RunOff ==
    /\ pc = "off"
    /\ argv = <<>>
    /\ input_file_path = <<>>
    /\ output_file_path = <<>>
    /\ env_api_key = NoKey
    /\ api_token_file = NoFile
    /\ prefer_env = TRUE
    /\ client_api_key = Unset
    /\ original = <<>>
    /\ subs = <<>>
    /\ block_size = 0
    /\ max_line_length = 0
    /\ total_blocks = 0
    /\ start = 0
    /\ block_num = 0
    /\ translated_block = <<>>
    /\ requests = <<>>
    /\ phases = <<>>
    /\ dest_existed = FALSE
    /\ dest_writes = 0
    /\ exit_code = Running

WrapOff ==
    /\ wrap_text = <<>>
    /\ wrap_width = 0
    /\ wrap_lines = <<>>
    /\ wrap_done = FALSE

RtOff ==
    /\ rt_block = <<>>
    /\ rt_combined_text = <<>>
    /\ rt_translated_text = <<>>
    /\ rt_parsed = <<>>
    /\ rt_pc = "off"

---------------------------------------------------------------------------
(* Spec: one run of the script.                                            *)

ProgName == <<"t", ".", "p", "y">>

\* The paths given on the command line.
Paths ==
    { <<"m", ".", "s", "r", "t">>,
      <<"m", ".", "S", "R", "T">>,
      <<"m", ".", "s", "r", "t", ".", "s", "r", "t">>,
      <<"m", ".", "t", "x", "t">> }

Argvs == {<<ProgName>>} \cup {<<ProgName, path>> : path \in Paths}

EnvKeys == {NoKey, <<"E">>}
TokenFiles == {NoFile, <<"F", NL>>}

\* The documents pysrt.open can return: entries numbered from 1, some with
\* two display lines.
OriginalText(p) ==
    IF p % 2 = 1 THEN <<"o">> \o IntToStr(p) ELSE <<"o", NL, "o">> \o IntToStr(p)

Document(n) == [p \in 1..n |-> [index |-> p, text |-> OriginalText(p)]]

Documents == {Document(n) : n \in 0..MaxEntries}

\* What the completion service can answer for a block: k lines in the
\* block's format (fewer than, as many as, or one more than the block has
\* entries), with short texts, texts to wrap, or texts whose first word is
\* longer than any width; or text with no index prefix at all.
TranslatedText(kind, j) ==
    CASE kind = "short" -> <<"t">> \o IntToStr(j)
      [] kind = "words" -> <<"a", " ", "b", "b", " ", "c">> \o IntToStr(j)
      [] kind = "long" -> <<"x", "x", "x", "x", "x", "x", " ", "y">> \o IntToStr(j)

ResponseKinds == {"short", "words", "long"}

ResponseLine(index, kind, j) ==
    <<"[">> \o IntToStr(index) \o <<"]", " ">> \o TranslatedText(kind, j)

Responses(doc, positions) ==
    { Join(<<NL>>, [j \in 1..k |->
          ResponseLine(doc[positions[1]].index + j - 1, kind, j)]) :
        k \in 0..(Len(positions) + 1), kind \in ResponseKinds }
    \cup { <<"o", "o", "p", "s", NL, NL>> }

Phase(name, block) == [name |-> name, block |-> block]

Init ==
    /\ pc = "check_usage"
    /\ argv \in Argvs
    /\ input_file_path = Unset
    /\ output_file_path = Unset
    /\ env_api_key \in EnvKeys
    /\ api_token_file \in TokenFiles
    /\ prefer_env \in BOOLEAN
    /\ client_api_key = Unset
    /\ original = <<>>
    /\ subs = <<>>
    /\ block_size = 0
    /\ max_line_length = 0
    /\ total_blocks = 0
    /\ start = 0
    /\ block_num = 0
    /\ translated_block = <<>>
    /\ requests = <<>>
    /\ phases = <<>>
    /\ dest_existed = FALSE
    /\ dest_writes = 0
    /\ exit_code = Running
    /\ WrapOff
    /\ RtOff

environment == <<argv, env_api_key, api_token_file, prefer_env>>

\* sys.exit(1), or an exception nothing catches (Python then ends with status 1)
Abort ==
    /\ pc' = "aborted"
    /\ exit_code' = Exited(1)
    /\ phases' = Append(phases, Phase("Aborted", block_num))

\* lines 79-84
CheckUsage ==
    /\ pc = "check_usage"
    /\ IF Len(argv) # 2
       THEN Abort /\ UNCHANGED input_file_path
       ELSE /\ input_file_path' = argv[2]
            /\ pc' = "check_extension"
            /\ UNCHANGED <<exit_code, phases>>
    /\ UNCHANGED <<environment, output_file_path, client_api_key, original, subs,
                   block_size, max_line_length, total_blocks, start, block_num,
                   translated_block, requests, dest_existed, dest_writes,
                   wrapVars, rtVars>>

\* lines 85-87
CheckExtension ==
    /\ pc = "check_extension"
    /\ IF ~HasSrtExtension(input_file_path)
       THEN Abort
       ELSE pc' = "load" /\ UNCHANGED <<exit_code, phases>>
    /\ UNCHANGED <<environment, input_file_path, output_file_path, client_api_key,
                   original, subs, block_size, max_line_length, total_blocks,
                   start, block_num, translated_block, requests, dest_existed,
                   dest_writes, wrapVars, rtVars>>

\* lines 90-91: pysrt.open returns a document
LoadDocument ==
    /\ pc = "load"
    /\ \E doc \in Documents :
          /\ subs' = doc
          /\ original' = doc
    /\ pc' = "output_path"
    /\ phases' = Append(phases, Phase("DocumentLoaded", 0))
    /\ UNCHANGED <<environment, input_file_path, output_file_path, client_api_key,
                   block_size, max_line_length, total_blocks, start, block_num,
                   translated_block, requests, dest_existed, dest_writes,
                   exit_code, wrapVars, rtVars>>

\* lines 92-94: pysrt.open raises
LoadFails ==
    /\ pc = "load"
    /\ Abort
    /\ UNCHANGED <<environment, input_file_path, output_file_path, client_api_key,
                   original, subs, block_size, max_line_length, total_blocks,
                   start, block_num, translated_block, requests, dest_existed,
                   dest_writes, wrapVars, rtVars>>

\* lines 97-108: the output path, and the overwrite question when a file is
\* already there (asked again until the answer is y or n; the answer taken
\* here is that last one).  The file just read exists, so when the output
\* path is the input path the question is asked.
DetermineOutput ==
    /\ pc = "output_path"
    /\ output_file_path' = OutputPath(input_file_path)
    /\ \E exists \in BOOLEAN, overwrite \in {"y", "n"} :
          /\ (output_file_path' = input_file_path) => exists
          /\ dest_existed' = exists
          /\ IF exists /\ overwrite = "n"
             THEN /\ pc' = "cancelled"
                  /\ exit_code' = Exited(0)
                  /\ phases' = Append(phases, Phase("Cancelled", 0))
             ELSE /\ pc' = "init_client"
                  /\ UNCHANGED <<exit_code, phases>>
    /\ UNCHANGED <<environment, input_file_path, client_api_key, original, subs,
                   block_size, max_line_length, total_blocks, start, block_num,
                   translated_block, requests, dest_writes, wrapVars, rtVars>>

\* line 111: OpenAI(api_key=os.environ.get("OPENAI_API_KEY")).  The client
\* library raises when it is given no key and the variable is not set; the
\* script does not catch it.
InitClient ==
    /\ pc = "init_client"
    /\ client_api_key' = env_api_key
    /\ IF env_api_key = NoKey
       THEN Abort
       ELSE pc' = "config" /\ UNCHANGED <<exit_code, phases>>
    /\ UNCHANGED <<environment, input_file_path, output_file_path, original, subs,
                   block_size, max_line_length, total_blocks, start, block_num,
                   translated_block, requests, dest_existed, dest_writes,
                   wrapVars, rtVars>>

\* lines 114-127: the settings are read (or asked for and stored)
ResolveConfig ==
    /\ pc = "config"
    /\ block_size' \in 0..MaxBlockSize
    /\ max_line_length' \in 0..MaxWidth
    /\ pc' = "total_blocks"
    /\ phases' = Append(phases, Phase("ConfigResolved", 0))
    /\ UNCHANGED <<environment, input_file_path, output_file_path, client_api_key,
                   original, subs, total_blocks, start, block_num,
                   translated_block, requests, dest_existed, dest_writes,
                   exit_code, wrapVars, rtVars>>

\* lines 128-130: a setting that is not an integer
ConfigFails ==
    /\ pc = "config"
    /\ Abort
    /\ UNCHANGED <<environment, input_file_path, output_file_path, client_api_key,
                   original, subs, block_size, max_line_length, total_blocks,
                   start, block_num, translated_block, requests, dest_existed,
                   dest_writes, wrapVars, rtVars>>

\* line 175; a block size of 0 raises ZeroDivisionError, which nothing catches
ComputeTotalBlocks ==
    /\ pc = "total_blocks"
    /\ IF block_size = 0
       THEN Abort /\ UNCHANGED total_blocks
       ELSE /\ total_blocks' = TotalBlocks(Len(subs), block_size)
            /\ pc' = "loop"
            /\ UNCHANGED <<exit_code, phases>>
    /\ UNCHANGED <<environment, input_file_path, output_file_path, client_api_key,
                   original, subs, block_size, max_line_length, start, block_num,
                   translated_block, requests, dest_existed, dest_writes,
                   wrapVars, rtVars>>

IssueRequest_WithoutWaiting ==
    /\ pc \in {"loop", "awaiting"}
    /\ start < Len(subs)
    /\ LET positions == BlockPositions(start + 1, block_size, Len(subs))
           block == [j \in 1..Len(positions) |-> subs[positions[j]]]
       IN  requests' = Append(requests,
              [block_num |-> block_num + 1,
               positions |-> positions,
               api_key |-> client_api_key,
               combined_text |-> SerializeBlock(block)])
    /\ block_num' = block_num + 1
    /\ pc' = "awaiting"
    /\ phases' = Append(phases, Phase("Request", block_num + 1))
    /\ UNCHANGED <<environment, input_file_path, output_file_path, client_api_key,
                   original, subs, block_size, max_line_length, total_blocks,
                   start, translated_block, dest_existed, dest_writes,
                   exit_code, wrapVars, rtVars>>

\* lines 179-181 and 134-157: the next block is sliced and serialized, and
\* its request is sent
IssueRequest ==
    /\ pc = "loop"
    /\ start < Len(subs)
    /\ LET positions == BlockPositions(start + 1, block_size, Len(subs))
           block == [j \in 1..Len(positions) |-> subs[positions[j]]]
       IN  requests' = Append(requests,
              [block_num |-> block_num + 1,
               positions |-> positions,
               api_key |-> client_api_key,
               combined_text |-> SerializeBlock(block)])
    /\ block_num' = block_num + 1
    /\ pc' = "awaiting"
    /\ phases' = Append(phases, Phase("Request", block_num + 1))
    /\ UNCHANGED <<environment, input_file_path, output_file_path, client_api_key,
                   original, subs, block_size, max_line_length, total_blocks,
                   start, translated_block, dest_existed, dest_writes,
                   exit_code, wrapVars, rtVars>>

RequestFails_Retries ==
    /\ pc = "awaiting"
    /\ requests' = Append(requests, requests[Len(requests)])
    /\ UNCHANGED <<pc, phases, exit_code>>
    /\ UNCHANGED <<environment, input_file_path, output_file_path, client_api_key,
                   original, subs, block_size, max_line_length, total_blocks,
                   start, block_num, translated_block, dest_existed,
                   dest_writes, wrapVars, rtVars>>

RequestFails_SavesProgress ==
    /\ pc = "awaiting"
    /\ Abort
    /\ dest_writes' = dest_writes + 1
    /\ UNCHANGED <<environment, input_file_path, output_file_path, client_api_key,
                   original, subs, block_size, max_line_length, total_blocks,
                   start, block_num, translated_block, requests, dest_existed,
                   wrapVars, rtVars>>

\* lines 165-167: the request (or reading its answer) raises
RequestFails ==
    /\ pc = "awaiting"
    /\ Abort
    /\ UNCHANGED <<environment, input_file_path, output_file_path, client_api_key,
                   original, subs, block_size, max_line_length, total_blocks,
                   start, block_num, translated_block, requests, dest_existed,
                   dest_writes, wrapVars, rtVars>>

\* lines 158-172 and 182-192: the answer is parsed and applied to the block,
\* and the loop moves to the next start
ReceiveAndApply ==
    /\ pc = "awaiting"
    /\ LET positions == requests[Len(requests)].positions
       IN  \E content \in Responses(subs, positions) :
              /\ translated_block' = ParseResponse(content)
              /\ subs' = ApplyBlock(subs, positions, translated_block',
                                    max_line_length)
    /\ start' = start + block_size
    /\ pc' = "loop"
    /\ phases' = Append(phases, Phase("Applied", block_num))
    /\ UNCHANGED <<environment, input_file_path, output_file_path, client_api_key,
                   original, block_size, max_line_length, total_blocks,
                   block_num, requests, dest_existed, dest_writes, exit_code,
                   wrapVars, rtVars>>

\* the range of line 179 is exhausted
LoopExit ==
    /\ pc = "loop"
    /\ start >= Len(subs)
    /\ pc' = "save"
    /\ UNCHANGED <<environment, input_file_path, output_file_path, client_api_key,
                   original, subs, block_size, max_line_length, total_blocks,
                   start, block_num, translated_block, requests, phases,
                   dest_existed, dest_writes, exit_code, wrapVars, rtVars>>

\* lines 198-201: subs.save(output_file_path), and the script ends
Save ==
    /\ pc = "save"
    /\ dest_writes' = dest_writes + 1
    /\ pc' = "done"
    /\ exit_code' = Exited(0)
    /\ phases' = Append(phases, Phase("Saved", 0))
    /\ UNCHANGED <<environment, input_file_path, output_file_path, client_api_key,
                   original, subs, block_size, max_line_length, total_blocks,
                   start, block_num, translated_block, requests, dest_existed,
                   wrapVars, rtVars>>

Next ==
    \/ CheckUsage
    \/ CheckExtension
    \/ LoadDocument
    \/ LoadFails
    \/ DetermineOutput
    \/ InitClient
    \/ ResolveConfig
    \/ ConfigFails
    \/ ComputeTotalBlocks
    \/ IssueRequest
    \/ RequestFails
    \/ ReceiveAndApply
    \/ LoopExit
    \/ Save

Spec == Init /\ [][Next]_vars

---------------------------------------------------------------------------
(* SpecWrap: split_long_line applied to every text over a small alphabet   *)
(* and every positive width.                                               *)

WrapAlphabet == {"a", "b", " "}
WrapTexts == StringsUpTo(WrapAlphabet, MaxTextLen)

InitWrap ==
    /\ wrap_text \in WrapTexts
    /\ wrap_width \in 1..MaxWidth
    /\ wrap_lines = <<>>
    /\ wrap_done = FALSE
    /\ RunOff
    /\ RtOff

CallSplitLongLine ==
    /\ ~wrap_done
    /\ wrap_lines' = split_long_line(wrap_text, wrap_width)
    /\ wrap_done' = TRUE
    /\ UNCHANGED <<wrap_text, wrap_width, runVars, rtVars>>

NextWrap == CallSplitLongLine

SpecWrap == InitWrap /\ [][NextWrap]_vars

---------------------------------------------------------------------------
(* SpecRoundTrip: one block is serialized, the service answers with the    *)
(* serialization itself, and the answer is parsed.                         *)

RtTexts ==
    { <<>>, <<"a">>, <<"a", " ", "b">>, <<" ", "a">>, <<"a", " ">>, <<" ">>,
      <<"a", NL, "b">>, <<"]", "a">> }

\* Blocks are slices of a document: consecutive indices from a first index.
RtFirstIndexes == {1, 9}

RtBlocks ==
    UNION { { [j \in 1..n |-> [index |-> first + j - 1, text |-> texts[j]]] :
                first \in RtFirstIndexes, texts \in [1..n -> RtTexts] } :
            n \in 1..MaxBlockLen }

InitRoundTrip ==
    /\ rt_block \in RtBlocks
    /\ rt_combined_text = <<>>
    /\ rt_translated_text = <<>>
    /\ rt_parsed = <<>>
    /\ rt_pc = "serialize"
    /\ RunOff
    /\ WrapOff

\* line 138
RtSerialize ==
    /\ rt_pc = "serialize"
    /\ rt_combined_text' = SerializeBlock(rt_block)
    /\ rt_pc' = "request"
    /\ UNCHANGED <<rt_block, rt_translated_text, rt_parsed, runVars, wrapVars>>

\* lines 152-158, with a service whose answer is the serialization it was sent
RtMirrorResponse ==
    /\ rt_pc = "request"
    /\ rt_translated_text' = Strip(rt_combined_text)
    /\ rt_pc' = "parse"
    /\ UNCHANGED <<rt_block, rt_combined_text, rt_parsed, runVars, wrapVars>>

\* line 170
RtParse ==
    /\ rt_pc = "parse"
    /\ rt_parsed' = ParseTranslatedText(rt_translated_text)
    /\ rt_pc' = "done"
    /\ UNCHANGED <<rt_block, rt_combined_text, rt_translated_text, runVars, wrapVars>>

NextRoundTrip == RtSerialize \/ RtMirrorResponse \/ RtParse

SpecRoundTrip == InitRoundTrip /\ [][NextRoundTrip]_vars

---------------------------------------------------------------------------
(* Properties of the run.                                                  *)

HasPhase(name, block) == \E m \in 1..Len(phases) : phases[m] = Phase(name, block)

LastPhase == phases[Len(phases)]

LoopFinished == pc \in {"save", "done"}

\* ceil(n / size) for size >= 1, stated without the code's formula
CeilDiv(n, size) == CHOOSE c \in 0..n : (c - 1) * size < n /\ n <= c * size

\* C1: for a block size >= 1 the blocks of the loop partition the document:
\* the k-th block holds the entries at positions (k-1)*B+1 .. min(k*B, L) in
\* order, so every block but the last has B entries and the last has the
\* rest; a finished loop has formed ceil(L/B) blocks, whose concatenation is
\* the whole entry sequence, nothing omitted, duplicated or reordered.
C1_BlocksPartitionDocument ==
    LET L == Len(original)
        B == block_size
        N == Len(requests)
    IN  /\ \A k \in 1..N :
              LET size == IF k * B <= L THEN B ELSE L - (k - 1) * B
              IN  requests[k].positions = [j \in 1..size |-> (k - 1) * B + j]
        /\ LoopFinished =>
              /\ N = CeilDiv(L, B)
              /\ total_blocks = N
              /\ Flatten([k \in 1..N |-> requests[k].positions]) = [p \in 1..L |-> p]
              /\ \A k \in 1..(N - 1) : Len(requests[k].positions) = B
              /\ N > 0 => Len(requests[N].positions) = L - (N - 1) * B

\* A finished run over 3 entries with block size 2: blocks of sizes 2 and 1.
C1_Witness ==
    /\ pc = "done"
    /\ Len(original) = 3
    /\ block_size = 2
    /\ Len(requests) = 2
    /\ Len(requests[2].positions) = 1

\* C2: when the last block sent has been applied and its parsed response
\* has k lines for n > k entries, the first k entries of the block hold the
\* parsed text at their position (its wrapped lines joined by line breaks
\* when max_line_length > 0, the text itself otherwise), the entries k+1..n
\* hold "Translation Error", and the run has not aborted.
C2_ShortResponseGetsPlaceholder ==
    (requests # <<>> /\ HasPhase("Applied", Len(requests))) =>
        LET positions == requests[Len(requests)].positions
            n == Len(positions)
            k == Len(translated_block)
        IN  k < n =>
              /\ \A j \in 1..k :
                    subs[positions[j]].text =
                        IF max_line_length > 0
                        THEN Join(<<NL>>, split_long_line(translated_block[j],
                                                         max_line_length))
                        ELSE translated_block[j]
              /\ \A j \in (k + 1)..n : subs[positions[j]].text = PlaceholderText
              /\ pc # "aborted"
              /\ exit_code # Exited(1)

\* A block of two entries whose response had one line, wrapped onto several
\* display lines: the second entry holds the placeholder, the loop goes on.
C2_Witness ==
    /\ pc = "loop"
    /\ requests # <<>>
    /\ Len(requests[Len(requests)].positions) = 2
    /\ Len(translated_block) = 1
    /\ max_line_length > 0
    /\ subs[requests[Len(requests)].positions[2]].text = PlaceholderText
    /\ \E c \in 1..Len(subs[requests[Len(requests)].positions[1]].text) :
          subs[requests[Len(requests)].positions[1]].text[c] = NL

\* C3: the destination is written at most once, and only when every entry
\* of the document belongs to a block that was translated and applied; a run
\* that ended with status 1 has never written it.
C3_DestinationWrittenOnlyAtEnd ==
    /\ dest_writes <= 1
    /\ dest_writes = 1 =>
          /\ pc = "done"
          /\ \A p \in 1..Len(original) :
                \E k \in 1..Len(requests) :
                    /\ \E j \in 1..Len(requests[k].positions) :
                          requests[k].positions[j] = p
                    /\ HasPhase("Applied", k)
    /\ (pc = "aborted" \/ exit_code = Exited(1)) => dest_writes = 0

\* A run that aborted in its second block, after the first was applied, with
\* a destination file that existed before: nothing was written.
C3_Witness ==
    /\ pc = "aborted"
    /\ Len(requests) = 2
    /\ HasPhase("Applied", 1)
    /\ dest_existed
    /\ dest_writes = 0

\* C4: the k-th request is the only request of block k; when a request
\* fails the run ends with status 1, nothing further can happen (no retry,
\* no request for a later block), and the entries of the failed block and of
\* the later blocks are as they were loaded.
C4_OneRequestPerBlockAbortOnFailure ==
    /\ Len(requests) = block_num
    /\ \A k \in 1..Len(requests) : requests[k].block_num = k
    /\ (pc = "aborted" /\ requests # <<>> /\ ~HasPhase("Applied", Len(requests))) =>
          /\ exit_code = Exited(1)
          /\ LastPhase = Phase("Aborted", Len(requests))
          /\ ~ENABLED Next
          /\ \A p \in 1..Len(subs) :
                p >= requests[Len(requests)].positions[1] => subs[p] = original[p]

\* The second block's request failed after the first block was applied.
C4_Witness ==
    /\ pc = "aborted"
    /\ Len(requests) = 2
    /\ HasPhase("Applied", 1)
    /\ subs[1] # original[1]
    /\ exit_code = Exited(1)

\* C5: once the client is initialised, the key the run uses is the one the
\* environment variable and api_token.txt yield in the order PreferEnvForAPIKey
\* gives (get_api_key), every request carries it, and the run has aborted at
\* the client's initialisation, with status 1 and no request sent, only if
\* neither source yields a key.
C5_KeyFromEnvOrFile ==
    client_api_key # Unset =>
        LET key == get_api_key(prefer_env, env_api_key, api_token_file)
        IN  IF key = ExitOne
            THEN pc = "aborted" /\ exit_code = Exited(1) /\ requests = <<>>
            ELSE /\ client_api_key = key
                 /\ \A k \in 1..Len(requests) : requests[k].api_key = key
                 /\ ~(pc = "aborted" /\ ~HasPhase("ConfigResolved", 0))

\* C8: the path a run saves to is its (accepted) input path with "_translated"
\* inserted immediately before the final four-character extension, nothing
\* else changed; so it differs from the input path and the run does not write
\* over its own source file.
C8_OutputPathInsertsSuffix ==
    dest_writes > 0 =>
        LET n == Len(input_file_path)
        IN  /\ output_file_path =
                  SubSeq(input_file_path, 1, n - 4)
                  \o <<"_", "t", "r", "a", "n", "s", "l", "a", "t", "e", "d">>
                  \o SubSeq(input_file_path, n - 3, n)
            /\ output_file_path # input_file_path

\* The phases of a run in the order first, second, Request 1, Applied 1,
\* Request 2, Applied 2, ..., Saved, or cut short by Aborted or Cancelled;
\* an applied block's entries have been replaced and no other entry has; the
\* blocks follow each other in document order.
RunFollows(first, second) ==
    /\ \A k \in 1..Len(phases) :
          \/ k = Len(phases) /\ phases[k].name \in {"Aborted", "Cancelled"}
          \/ k = 1 /\ phases[k] = Phase(first, 0)
          \/ k = 2 /\ phases[k] = Phase(second, 0)
          \/ k >= 3 /\ k % 2 = 1 /\ phases[k] = Phase("Request", (k - 1) \div 2)
          \/ k >= 4 /\ k % 2 = 0 /\ phases[k] = Phase("Applied", (k - 2) \div 2)
          \/ /\ k >= 3 /\ k % 2 = 1 /\ k = Len(phases)
             /\ phases[k] = Phase("Saved", 0)
             /\ \A p \in 1..Len(subs) : subs[p].text # original[p].text
    /\ (pc = "done") = (phases # <<>> /\ LastPhase = Phase("Saved", 0))
    /\ \A k \in 1..Len(requests) :
          /\ HasPhase("Request", k)
          /\ \A p \in 1..Len(subs) :
                (\E j \in 1..Len(requests[k].positions) : requests[k].positions[j] = p)
                => (HasPhase("Applied", k) = (subs[p].text # original[p].text))
          /\ \A h \in 1..(k - 1) :
                \A i \in 1..Len(requests[h].positions), j \in 1..Len(requests[k].positions) :
                    requests[h].positions[i] < requests[k].positions[j]

\* C9 as claimed: the settings are resolved before the document is loaded,
\* then the blocks are translated in document order, each request sent only
\* after the block before it was parsed and applied, then the save.
C9_ConfigThenDocumentThenBlocks == RunFollows("ConfigResolved", "DocumentLoaded")

\* C9 as amended: the document is loaded before the settings are resolved;
\* then the blocks are translated in document order, each request sent only
\* after the block before it was parsed and applied, then the save.
C9_DocumentThenConfigThenBlocks == RunFollows("DocumentLoaded", "ConfigResolved")

\* A finished run of two blocks: loaded, configured, two requests each
\* followed by its application, saved.
C9_Witness ==
    /\ pc = "done"
    /\ Len(requests) = 2
    /\ Len(phases) = 7
    /\ phases[1].name = "DocumentLoaded"
    /\ phases[2].name = "ConfigResolved"

---------------------------------------------------------------------------
(* Properties of split_long_line.                                          *)

WordsOfLines(lines) == Flatten([k \in 1..Len(lines) |-> SplitWords(lines[k])])

\* C6: the lines of split_long_line hold exactly the words of the text, in
\* order and unsplit; a line is longer than the width only if it is a single
\* word that is itself longer than the width; and a line is started only
\* when its first word, appended with a separating space to the line before
\* it, would have exceeded the width.
C6_WrapKeepsWordsAndWidth ==
    wrap_done =>
        /\ WordsOfLines(wrap_lines) = SplitWords(wrap_text)
        /\ \A k \in 1..Len(wrap_lines) :
              \/ Len(wrap_lines[k]) <= wrap_width
              \/ /\ SplitWords(wrap_lines[k]) = <<wrap_lines[k]>>
                 /\ Len(wrap_lines[k]) > wrap_width
        /\ \A k \in 2..Len(wrap_lines) :
              LET first == SplitWords(wrap_lines[k])[1]
              IN  Len(wrap_lines[k - 1]) + 1 + Len(first) > wrap_width

\* A text of several words that was wrapped onto more than one line, one of
\* them holding two words.
C6_Witness ==
    /\ wrap_done
    /\ Len(wrap_lines) >= 2
    /\ \E k \in 1..Len(wrap_lines) : Len(SplitWords(wrap_lines[k])) = 2

\* C10: when the text has at least one word, no line of split_long_line is
\* empty: every line holds at least one word.
C10_NoEmptyLine ==
    (wrap_done /\ SplitWords(wrap_text) # <<>>) =>
        \A k \in 1..Len(wrap_lines) : SplitWords(wrap_lines[k]) # <<>>

---------------------------------------------------------------------------
(* Properties of the serialization and parsing round trip.                 *)

\* C7 as claimed: parsing a block's own serialization returns one string
\* per entry, each equal to the entry's text exactly.
C7_RoundTripExact ==
    rt_pc = "done" =>
        /\ Len(rt_parsed) = Len(rt_block)
        /\ \A j \in 1..Len(rt_block) : rt_parsed[j] = rt_block[j].text

OneLine(text) == [k \in 1..Len(text) |-> IF text[k] = NL THEN " " ELSE text[k]]

\* C7 as amended: parsing a block's own serialization returns one string per
\* entry; each equals the entry's text with every line break replaced by a
\* space, and the last one has its trailing whitespace removed as well.
C7_RoundTripFlattened ==
    rt_pc = "done" =>
        /\ Len(rt_parsed) = Len(rt_block)
        /\ \A j \in 1..Len(rt_block) :
              rt_parsed[j] = IF j < Len(rt_block)
                             THEN OneLine(rt_block[j].text)
                             ELSE RStrip(OneLine(rt_block[j].text))

\* A parsed block of two entries whose first text has two display lines and
\* whose last text ends with whitespace.
C7_Witness ==
    /\ rt_pc = "done"
    /\ Len(rt_block) = 2
    /\ rt_block[1].text = <<"a", NL, "b">>
    /\ rt_block[2].text = <<"a", " ">>
    /\ rt_parsed = << <<"a", " ", "b">>, <<"a">> >>

===========================================================================
